---- MODULE Spec2Model ----
(***************************************************************************)
(* Bootstrap layer of the TalkTheTalk server (src/src/setupDatabase.ts):   *)
(* the database connection supervisor (setupDatabase), the Express request *)
(* pipeline with its two terminal handlers (ChattyServer.start,            *)
(* globalErrorHandler) and the Socket.IO gateway with its Redis adapter    *)
(* (startServer, createSocketIO).  One Node.js process, one event loop:    *)
(* every action below is one run-to-completion callback.                   *)
(***************************************************************************)
EXTENDS Integers, Sequences, FiniteSets, TLC

\* ---------------------------------------------------------------- bounds
MaxStarts == 2        \* calls of the exported setupDatabase function
MaxDisconnects == 2   \* 'disconnected' events emitted by mongoose.connection
MaxRequests == 1      \* HTTP requests accepted by the listener

\* ------------------------------------------------------------- constants
EXIT_FAILURE == 1     \* process.exit(1)
NOT_FOUND == 404      \* HTTP_STATUS.NOT_FOUND

VARIABLES
    starts,        \* number of calls of setupDatabase() so far
    attempts,      \* mongoose.connect() promises: [origin, status]
    listeners,     \* mongoose.connection listeners: event name -> number of `connect` listeners
    connState,     \* state of mongoose.connection
    disconnects,   \* number of 'disconnected' events emitted so far
    running,       \* FALSE once process.exit was called
    exitCode,      \* argument of process.exit (meaningful when ~running)
    log,           \* set of log lines written (by tag)
    stack,         \* the Express application's layers, in registration order
    requests,      \* the requests accepted so far
    srvPc,         \* position of startServer / createSocketIO
    io,            \* TRUE once the Socket.IO server is bound to the HTTP server
    pubClient,     \* publish handle: "none", "connecting", "ready", "failed"
    subClient,     \* subscribe handle
    adapter,       \* TRUE once io.adapter(createAdapter(...)) has run
    sioResult,     \* outcome of createSocketIO: "none", "returned", "threw"
    listening      \* TRUE once httpServer.listen was called

dbVars == <<starts, attempts, listeners, connState, disconnects>>
procVars == <<running, exitCode>>
srvVars == <<stack, requests, srvPc, io, pubClient, subClient, adapter, sioResult, listening>>

\* ------------------------------------------------- connection supervisor

\* The event mongoose.connection emits when the store connection is lost.
DisconnectedEvent == "disconnected"

\* Variant: the listener registered under the event mongoose emits.
ReconnectEventDisconnected == "disconnected"

\* The event name the supervisor registers `connect` under.
ReconnectEvent == "[*] MongoDb disconnected, trying to reconnect..."

EventNames == {DisconnectedEvent, ReconnectEvent}

Pending(as) == {i \in DOMAIN as : as[i].status = "pending"}

\* connect(): mongoose.connect(url) returns a pending promise.
connect(as, origin) == Append(as, [origin |-> origin, status |-> "pending"])

RECURSIVE connectTimes(_, _, _)
connectTimes(as, origin, n) ==
    IF n = 0 THEN as ELSE connectTimes(connect(as, origin), origin, n - 1)

\* EventEmitter.emit(ev): every listener registered under ev is called;
\* the only listeners this program registers are `connect`.
emit(as, ls, ev) == connectTimes(as, "listener", ls[ev])

\* Variant: a listener is registered only if none is registered yet.
onIfAbsent(ls, ev) == [ls EXCEPT ![ev] = 1]

\* on(ev, connect)
on(ls, ev) == [ls EXCEPT ![ev] = @ + 1]

\* The exported function: connect(); connection.on(<event>, connect).
SetupDatabase ==
    /\ running
    /\ starts < MaxStarts
    /\ starts' = starts + 1
    /\ attempts' = connect(attempts, "start")
    /\ connState' = "Connecting"
    /\ listeners' = on(listeners, ReconnectEvent)
    /\ UNCHANGED <<disconnects, running, exitCode, log>>
    /\ UNCHANGED srvVars

\* .then(() => log.info(...))
connectThen(i) ==
    /\ attempts' = [attempts EXCEPT ![i].status = "resolved"]
    /\ connState' = "Connected"
    /\ log' = log \cup {"db.connected"}
    /\ UNCHANGED <<running, exitCode>>

\* Variant: the catch handler logs the error and does not exit.
connectCatchNoExit(i) ==
    /\ attempts' = [attempts EXCEPT ![i].status = "rejected"]
    /\ connState' = "Disconnected"
    /\ log' = log \cup {"db.error"}
    /\ UNCHANGED <<running, exitCode>>

\* .catch((error) => { log.error(...); return process.exit(1); })
connectCatch(i) ==
    /\ attempts' = [attempts EXCEPT ![i].status = "rejected"]
    /\ connState' = "Disconnected"
    /\ log' = log \cup {"db.error"}
    /\ running' = FALSE
    /\ exitCode' = EXIT_FAILURE

ConnectResolved ==
    /\ running
    /\ \E i \in Pending(attempts) : connectThen(i)
    /\ UNCHANGED <<starts, listeners, disconnects>>
    /\ UNCHANGED srvVars

ConnectRejected ==
    /\ running
    /\ \E i \in Pending(attempts) : connectCatch(i)
    /\ UNCHANGED <<starts, listeners, disconnects>>
    /\ UNCHANGED srvVars

\* The store connection is lost: mongoose.connection emits 'disconnected'.
Disconnect ==
    /\ running
    /\ connState = "Connected"
    /\ disconnects < MaxDisconnects
    /\ disconnects' = disconnects + 1
    /\ attempts' = emit(attempts, listeners, DisconnectedEvent)
    /\ connState' = IF listeners[DisconnectedEvent] > 0 THEN "Connecting" ELSE "Disconnected"
    /\ UNCHANGED <<starts, listeners, running, exitCode, log>>
    /\ UNCHANGED srvVars


\* ------------------------------------------------------ request pipeline

\* Stages registered with a four-argument callback are error handlers.
IsErrorHandler(name) == name = "failureHandler"

securityMiddleware(st) == st \o <<"cookieSession", "hpp", "helmet", "cors">>

standardMiddleware(st) == st \o <<"compression", "json", "urlencoded">>

routesMiddleware(st) == st \o <<"routes">>

\* Variant: the failure handler registered before the catch-all.
globalErrorHandlerSwapped(st) == st \o <<"failureHandler", "catchAll">>

\* app.all('*', ...) first, then app.use((error, req, res, next) => ...)
globalErrorHandler(st) == st \o <<"catchAll", "failureHandler">>

\* Variant: the terminal handlers registered before the routes.
buildPipelineHandlersFirst(st) ==
    routesMiddleware(globalErrorHandler(standardMiddleware(securityMiddleware(st))))

\* The registration part of ChattyServer.start().
buildPipeline(st) ==
    globalErrorHandler(routesMiddleware(standardMiddleware(securityMiddleware(st))))

Methods == {"GET", "POST", "OPTIONS"}
Paths == {"/nope", "/api/v1/feed"}

NoError == [classified |-> FALSE, statusCode |-> 0, message |-> ""]

\* CustomError instances thrown by route handlers.
ClassifiedErrors ==
    {[classified |-> TRUE, statusCode |-> s, message |-> "forbidden"] : s \in {400, 403}}

\* Every other error: the body parsers' http-errors, plain Error objects.
PayloadTooLarge == [classified |-> FALSE, statusCode |-> 413, message |-> "request entity too large"]
PlainError == [classified |-> FALSE, statusCode |-> 0, message |-> "TypeError: x is undefined"]

NoResponse == [status |-> 0, body |-> <<>>, by |-> "none"]

headersSent(req) == req.res.by # "none"

\* CustomError.serializeError()
serializeError(error) == <<error.message, "error">>

\* Express looks for the next layer after index p: an error handler when an
\* error is being propagated, an ordinary layer otherwise; 0 when none is left.
NextIndex(st, p, hasErr) ==
    LET later == {j \in DOMAIN st : j > p /\ IsErrorHandler(st[j]) = hasErr}
    IN  IF later = {} THEN 0 ELSE CHOOSE j \in later : \A k \in later : j <= k

\* No layer is left: Express's default handler answers unless a response
\* has already been sent.
finalhandler(req, error) ==
    [req EXCEPT !.pos = 0, !.err = error,
        !.res = IF headersSent(req) THEN @
                ELSE IF error = NoError
                     THEN [status |-> NOT_FOUND,
                           body |-> <<"Cannot ", req.method, " ", req.path>>,
                           by |-> "finalhandler"]
                     ELSE [status |-> 500,
                           body |-> <<"Internal Server Error">>,
                           by |-> "finalhandler"]]

\* next(error) called by the layer at index p.
next(st, req, p, error) ==
    LET j == NextIndex(st, p, error # NoError)
        r == [req EXCEPT !.raised = IF error # NoError THEN error ELSE @]
    IN  IF j = 0 THEN finalhandler(r, error)
        ELSE [r EXCEPT !.pos = j, !.err = error]

\* A layer writes the response and does not call next.
respond(req, status, body, by) ==
    [req EXCEPT !.pos = 0, !.res = [status |-> status, body |-> body, by |-> by]]

\* What the third-party middleware can do with a request: cors answers
\* preflight requests itself, the body parsers reject bad or oversized bodies.
middleware(st, req, p, name) ==
    IF name = "cors" /\ req.method = "OPTIONS"
    THEN {respond(req, 200, <<>>, name)}
    ELSE {next(st, req, p, NoError)} \cup
         (IF name \in {"json", "urlencoded"}
          THEN {next(st, req, p, PayloadTooLarge)} ELSE {})

\* applicationRoutes(app): no route matches, or the matching handler
\* answers, or it throws (express-async-errors forwards the error).
routes(st, req, p) ==
    {next(st, req, p, NoError)} \cup
    {respond(req, 200, <<"ok">>, "routes")} \cup
    {next(st, req, p, e) : e \in ClassifiedErrors \cup {PlainError}}

\* Variant: the catch-all answers without the requested path.
catchAllGeneric(req) == respond(req, NOT_FOUND, <<"Not found.">>, "catchAll")

\* app.all('*', (req, res) => res.status(NOT_FOUND).json({message: ...}))
catchAll(req) == respond(req, NOT_FOUND, <<req.path, " not found.">>, "catchAll")

\* Variant: a classified error is answered with a fixed status and body.
failureHandlerFixedStatus(st, req, p) ==
    LET logged == [req EXCEPT !.logged = TRUE]
        written == IF req.err.classified
                   THEN [logged EXCEPT !.res = [status |-> 500,
                                                body |-> <<"Internal Server Error">>,
                                                by |-> "failureHandler"]]
                   ELSE logged
    IN  next(st, [written EXCEPT !.fhNext = "void"], p, NoError)

\* Variant: next() inside the instanceof branch, so that an unclassified
\* error is logged and the request is left without any further processing.
failureHandlerNextIfClassified(st, req, p) ==
    LET logged == [req EXCEPT !.logged = TRUE]
    IN  IF req.err.classified
        THEN next(st, [logged EXCEPT !.res = [status |-> req.err.statusCode,
                                              body |-> serializeError(req.err),
                                              by |-> "failureHandler"],
                                     !.fhNext = "void"], p, NoError)
        ELSE [logged EXCEPT !.pos = 0]

\* Variant: the error is handed on, next(error).
failureHandlerNextError(st, req, p) ==
    LET logged == [req EXCEPT !.logged = TRUE]
        written == IF req.err.classified
                   THEN [logged EXCEPT !.res = [status |-> req.err.statusCode,
                                                body |-> serializeError(req.err),
                                                by |-> "failureHandler"]]
                   ELSE logged
    IN  next(st, [written EXCEPT !.fhNext = "error"], p, req.err)

\* app.use((error, req, res, next) => { log.error(error);
\*     if (error instanceof CustomError) res.status(...).json(...); next(); })
failureHandler(st, req, p) ==
    LET logged == [req EXCEPT !.logged = TRUE]
        written == IF req.err.classified
                   THEN [logged EXCEPT !.res = [status |-> req.err.statusCode,
                                                body |-> serializeError(req.err),
                                                by |-> "failureHandler"]]
                   ELSE logged
    IN  next(st, [written EXCEPT !.fhNext = "void"], p, NoError)

\* The layer at req.pos runs.
runStage(st, req) ==
    LET p == req.pos
        name == st[p]
        r == [req EXCEPT !.ran = Append(@, name)]
    IN  CASE name = "catchAll" -> {catchAll(r)}
          [] name = "failureHandler" -> {failureHandler(st, r, p)}
          [] name = "routes" -> routes(st, r, p)
          [] OTHER -> middleware(st, r, p, name)

NewRequest(st, m, path) ==
    next(st, [method |-> m, path |-> path, pos |-> 0, err |-> NoError,
              res |-> NoResponse, ran |-> <<>>, logged |-> FALSE,
              fhNext |-> "notCalled", raised |-> NoError], 0, NoError)

\* --------------------------------------------------------------- gateway

\* Variant: Promise.race, settled by whichever open settles first.
PromiseRace(pub, sub) ==
    IF pub = "ready" \/ sub = "ready" THEN "fulfilled"
    ELSE IF pub = "failed" \/ sub = "failed" THEN "rejected"
    ELSE "pending"

\* await Promise.all([pubClient.connect(), subClient.connect()])
PromiseAll(pub, sub) ==
    IF pub = "failed" \/ sub = "failed" THEN "rejected"
    ELSE IF pub = "ready" /\ sub = "ready" THEN "fulfilled"
    ELSE "pending"

\* Variant: `await pubClient.connect()` before subClient.connect() is called.
StartSequential ==
    /\ running
    /\ srvPc = "init"
    /\ stack' = buildPipeline(stack)
    /\ io' = TRUE
    /\ pubClient' = "connecting"
    /\ subClient' = "none"
    /\ srvPc' = "createSocketIO"
    /\ UNCHANGED <<requests, adapter, sioResult, listening, log>>
    /\ UNCHANGED <<dbVars, procVars>>

\* ChattyServer.start(): the four registrations, then startServer up to its
\* first suspension, the await inside createSocketIO.
Start ==
    /\ running
    /\ srvPc = "init"
    /\ stack' = buildPipeline(stack)
    /\ io' = TRUE
    /\ pubClient' = "connecting"
    /\ subClient' = "connecting"
    /\ srvPc' = "createSocketIO"
    /\ UNCHANGED <<requests, adapter, sioResult, listening, log>>
    /\ UNCHANGED <<dbVars, procVars>>

\* pubClient.connect() settles.
PubSettles ==
    /\ running
    /\ pubClient = "connecting"
    /\ pubClient' \in {"ready", "failed"}
    /\ UNCHANGED <<stack, requests, srvPc, io, subClient, adapter, sioResult, listening, log>>
    /\ UNCHANGED <<dbVars, procVars>>

\* subClient.connect() settles.
SubSettles ==
    /\ running
    /\ subClient = "connecting"
    /\ subClient' \in {"ready", "failed"}
    /\ UNCHANGED <<stack, requests, srvPc, io, pubClient, adapter, sioResult, listening, log>>
    /\ UNCHANGED <<dbVars, procVars>>

\* createSocketIO resumes after the await: installs the adapter and returns
\* io, or the rejection is thrown out of the function.
createSocketIO ==
    /\ running
    /\ srvPc = "createSocketIO"
    /\ PromiseAll(pubClient, subClient) # "pending"
    /\ IF PromiseAll(pubClient, subClient) = "fulfilled"
       THEN adapter' = TRUE /\ sioResult' = "returned"
       ELSE adapter' = adapter /\ sioResult' = "threw"
    /\ srvPc' = "startServer"
    /\ UNCHANGED <<stack, requests, io, pubClient, subClient, listening, log>>
    /\ UNCHANGED <<dbVars, procVars>>

\* Variant: startHttpServer is called after the catch block as well.
startServerListenAlways ==
    /\ running
    /\ srvPc = "startServer"
    /\ listening' = TRUE
    /\ log' = log \cup {IF sioResult = "returned" THEN "server.started" ELSE "server.error"}
    /\ srvPc' = "done"
    /\ UNCHANGED <<stack, requests, io, pubClient, subClient, adapter, sioResult>>
    /\ UNCHANGED <<dbVars, procVars>>

\* startServer resumes after `await this.createSocketIO(httpServer)`:
\* startHttpServer and socketIOConnections, or the catch block.
startServer ==
    /\ running
    /\ srvPc = "startServer"
    /\ IF sioResult = "returned"
       THEN listening' = TRUE /\ log' = log \cup {"server.started"}
       ELSE listening' = listening /\ log' = log \cup {"server.error"}
    /\ srvPc' = "done"
    /\ UNCHANGED <<stack, requests, io, pubClient, subClient, adapter, sioResult>>
    /\ UNCHANGED <<dbVars, procVars>>

\* The listener accepts a request and hands it to the first layer.
Accept ==
    /\ running
    /\ listening
    /\ Len(requests) < MaxRequests
    /\ \E m \in Methods, path \in Paths :
          requests' = Append(requests, NewRequest(stack, m, path))
    /\ UNCHANGED <<stack, srvPc, io, pubClient, subClient, adapter, sioResult, listening, log>>
    /\ UNCHANGED <<dbVars, procVars>>

\* The next layer of one request in progress runs.
Handle ==
    /\ running
    /\ \E k \in DOMAIN requests :
          /\ requests[k].pos # 0
          /\ \E r \in runStage(stack, requests[k]) :
                /\ requests' = [requests EXCEPT ![k] = r]
                /\ log' = IF r.logged /\ ~requests[k].logged
                          THEN log \cup {"server.requestError"} ELSE log
    /\ UNCHANGED <<stack, srvPc, io, pubClient, subClient, adapter, sioResult, listening>>
    /\ UNCHANGED <<dbVars, procVars>>

vars == <<starts, attempts, listeners, connState, disconnects, running, exitCode, log,
          stack, requests, srvPc, io, pubClient, subClient, adapter, sioResult, listening>>

Init ==
    /\ starts = 0
    /\ attempts = <<>>
    /\ listeners = [e \in EventNames |-> 0]
    /\ connState = "Disconnected"
    /\ disconnects = 0
    /\ running = TRUE
    /\ exitCode = 0
    /\ log = {}
    /\ stack = <<>>
    /\ requests = <<>>
    /\ srvPc = "init"
    /\ io = FALSE
    /\ pubClient = "none"
    /\ subClient = "none"
    /\ adapter = FALSE
    /\ sioResult = "none"
    /\ listening = FALSE

Next ==
    \/ SetupDatabase
    \/ ConnectResolved
    \/ ConnectRejected
    \/ Disconnect
    \/ Start
    \/ PubSettles
    \/ SubSettles
    \/ createSocketIO
    \/ startServer
    \/ Accept
    \/ Handle

Spec == Init /\ [][Next]_vars

\* ---------------------------------------------------------------- claims

Reconnects == Cardinality({i \in DOMAIN attempts : attempts[i].origin = "listener"})
Rejected(origin) ==
    {i \in DOMAIN attempts : attempts[i].status = "rejected" /\ attempts[i].origin = origin}
Finished(r) == r.pos = 0
Ran(r, name) == \E i \in DOMAIN r.ran : r.ran[i] = name
StagesBeforeCatchAll == routesMiddleware(standardMiddleware(securityMiddleware(<<>>)))
BrokerFailed == pubClient = "failed" \/ subClient = "failed"

\* C1: after a successful initial connect, N 'disconnected' notifications
\* lead to exactly N reconnect attempts (invocations of connect by the
\* listener) and the process is still running.
C1_ReconnectLoop ==
    (starts = 1 /\ attempts[1].status = "resolved")
        => (Reconnects = disconnects /\ running)

\* C2: when the initial connection attempt fails the process has exited with
\* code 1, no reconnect attempt was made, and no connect is invoked afterwards.
C2_FatalStartup ==
    /\ []((Rejected("start") # {})
            => (~running /\ exitCode = EXIT_FAILURE /\ Reconnects = 0))
    /\ [][(Rejected("start") # {}) => (Len(attempts') = Len(attempts))]_vars

C2_Witness ==
    /\ starts = 1
    /\ attempts[1].status = "rejected"
    /\ ~running
    /\ exitCode = EXIT_FAILURE

\* C3: when start was called twice before the first attempt completed,
\* exactly one connection attempt is in flight.
C3_IdempotentStart ==
    (starts >= 2 /\ attempts[1].status = "pending" /\ attempts[2].status = "pending")
        => Cardinality(Pending(attempts)) = 1

\* C4: the adapter is installed only when both the publish and the subscribe
\* handle are ready; when either open failed the adapter is not installed and
\* createSocketIO, once it has resumed, has thrown to its caller.
C4_FanOutAttachOrdering ==
    /\ adapter => (pubClient = "ready" /\ subClient = "ready" /\ sioResult = "returned")
    /\ BrokerFailed => ~adapter
    /\ (BrokerFailed /\ srvPc \in {"startServer", "done"}) => sioResult = "threw"
    /\ sioResult = "threw" => BrokerFailed

C4_Witness ==
    /\ adapter
    /\ sioResult = "returned"
    /\ pubClient = "ready"
    /\ subClient = "ready"

\* C5: every finished request in which a stage raised a failure has a
\* response written by one of the pipeline's stages, with a status code and
\* a body.
C5_ErrorContainment ==
    \A k \in DOMAIN requests :
        (Finished(requests[k]) /\ requests[k].raised # NoError)
            => /\ \E i \in DOMAIN stack : requests[k].res.by = stack[i]
               /\ requests[k].res.status # 0
               /\ requests[k].res.body # <<>>

\* C6: once gateway construction has failed on a broker handle, the failure
\* is logged, the process has not exited because of it, and the HTTP
\* listener is listening.
C6_BrokerDegradation ==
    (srvPc = "done" /\ sioResult = "threw")
        => /\ "server.error" \in log
           /\ (Rejected("start") \cup Rejected("listener") = {}) => running
           /\ listening

\* C7: the catch-all runs for a request only after every earlier stage ran
\* and passed the request on without a response or a failure; a request in
\* which a failure was raised never gets the catch-all's response.
C7_CatchAllOnlyIfUnhandled ==
    \A k \in DOMAIN requests :
        LET r == requests[k] IN
        /\ Ran(r, "catchAll")
              => /\ r.ran = StagesBeforeCatchAll \o <<"catchAll">>
                 /\ r.raised = NoError
                 /\ r.res.by = "catchAll"
        /\ r.raised # NoError => (~Ran(r, "catchAll") /\ r.res.by # "catchAll")
        /\ (r.res.by # "none" /\ r.res.by # "catchAll") => ~Ran(r, "catchAll")

C7_Witness ==
    \E k \in DOMAIN requests :
        /\ requests[k].res.by = "catchAll"
        /\ requests[k].res.status = NOT_FOUND
        /\ Finished(requests[k])

\* C8: every finished request whose failure was not a classified error has
\* a response with a 500-class status.
C8_UnclassifiedGets500 ==
    \A k \in DOMAIN requests :
        (Finished(requests[k]) /\ requests[k].raised # NoError
            /\ ~requests[k].raised.classified)
            => /\ requests[k].res.by # "none"
               /\ requests[k].res.status \in 500..599

C10_AtMostOneInFlight == Cardinality(Pending(attempts)) <= 1

\* C11: a finished request in which a classified error with status code s
\* and payload p was raised has the response (s, p), written by the failure
\* handler; every error that reached the failure handler was logged,
\* classified or not.
C11_ClassifiedVerbatim ==
    \A k \in DOMAIN requests :
        LET r == requests[k] IN
        /\ (Finished(r) /\ r.raised.classified)
              => /\ r.res.status = r.raised.statusCode
                 /\ r.res.body = <<r.raised.message, "error">>
                 /\ r.res.by = "failureHandler"
        /\ (Finished(r) /\ r.raised # NoError)
              => (r.logged /\ "server.requestError" \in log)

C11_Witness ==
    \E k \in DOMAIN requests :
        /\ Finished(requests[k])
        /\ requests[k].raised.classified
        /\ requests[k].raised.statusCode = 403
        /\ requests[k].res.status = 403
        /\ requests[k].res.body = <<"forbidden", "error">>
        /\ requests[k].logged

C13_NextOnlyForClassified ==
    \A k \in DOMAIN requests :
        Ran(requests[k], "failureHandler")
            => (requests[k].fhNext # "notCalled" <=> requests[k].raised.classified)

\* C13 (amended): the failure handler calls next for every error, classified
\* or not; it writes a response before doing so exactly when the error is
\* classified.
C13_NextForEveryError ==
    \A k \in DOMAIN requests :
        LET r == requests[k] IN
        /\ Ran(r, "failureHandler") <=> r.fhNext # "notCalled"
        /\ Ran(r, "failureHandler")
              => (r.res.by = "failureHandler" <=> r.raised.classified)

C13_Witness ==
    \E k \in DOMAIN requests :
        /\ Ran(requests[k], "failureHandler")
        /\ requests[k].raised = PlainError
        /\ requests[k].fhNext = "void"
        /\ requests[k].res.by = "finalhandler"

\* The lifecycle state of the gateway, read off the program state.
GatewayState ==
    IF sioResult = "threw" THEN "Failed"
    ELSE IF listening THEN "Serving"
    ELSE IF adapter THEN "FanOutAttached"
    ELSE IF io THEN "TransportBound"
    ELSE "Uninitialized"

GatewayMoves ==
    {<<"Uninitialized", "TransportBound">>, <<"TransportBound", "FanOutAttached">>,
     <<"FanOutAttached", "Serving">>, <<"TransportBound", "Failed">>}

\* C14: the gateway state only moves Uninitialized -> TransportBound ->
\* FanOutAttached -> Serving, or TransportBound -> Failed; the listener
\* listens only with the adapter attached; a failed broker handle keeps the
\* gateway out of FanOutAttached and Serving, and from Failed nothing
\* further happens: no handle is reopened, no adapter attached, no listen.
C14_GatewayLifecycle ==
    /\ [](listening => adapter)
    /\ [](BrokerFailed => GatewayState \in {"TransportBound", "Failed"})
    /\ [][GatewayState' = GatewayState \/ <<GatewayState, GatewayState'>> \in GatewayMoves]_vars
    /\ [][GatewayState = "Failed"
            => /\ adapter' = adapter
               /\ listening' = listening
               /\ io' = io
               /\ (pubClient = "failed" => pubClient' = "failed")
               /\ (subClient = "failed" => subClient' = "failed")
               /\ sioResult' = sioResult]_vars

C14_Witness ==
    /\ GatewayState = "Failed"
    /\ srvPc = "done"
    /\ pubClient = "ready"
    /\ subClient = "failed"
    /\ ~adapter
    /\ ~listening

DeclaredOrder ==
    <<"cookieSession", "hpp", "helmet", "cors",
      "compression", "json", "urlencoded",
      "routes", "catchAll", "failureHandler">>

\* C15: once start() has run the layers are, and stay, in the order security,
\* normalization, routes, catch-all, failure handler; for every request the
\* layers that ran are the first layers of that order, one after the other,
\* followed at most by the failure handler, which runs last and only after a
\* failure was raised, so every layer up to the failing one has run before it.
C15_StrictStageOrder ==
    /\ [](stack # <<>> => stack = DeclaredOrder)
    /\ [][stack # <<>> => stack' = stack]_vars
    /\ [](\A k \in DOMAIN requests :
            LET r == requests[k]
                n == Len(r.ran)
            IN  \A i \in 1..n :
                   \/ r.ran[i] = DeclaredOrder[i]
                   \/ /\ i = n
                      /\ r.ran[i] = "failureHandler"
                      /\ r.raised # NoError
                      /\ r.logged)

C15_Witness ==
    \E k \in DOMAIN requests :
        /\ requests[k].raised = PayloadTooLarge
        /\ requests[k].ran = <<"cookieSession", "hpp", "helmet", "cors",
                               "compression", "json", "failureHandler">>
        /\ Finished(requests[k])

\* C16: the open of the publish handle and the open of the subscribe handle
\* are initiated in the same step, before createSocketIO suspends: whenever
\* one has been initiated so has the other, whatever the state (connecting,
\* ready, failed) of the first.
C16_ConcurrentBrokerOpens ==
    /\ pubClient = "none" <=> subClient = "none"
    /\ srvPc # "init" => (pubClient # "none" /\ subClient # "none")
    /\ srvPc = "init" => (pubClient = "none" /\ subClient = "none")

C16_Witness ==
    /\ srvPc = "createSocketIO"
    /\ pubClient = "connecting"
    /\ subClient = "ready"

\* C17: once the failure handler has run for a request, what it handed to
\* next carries no error and no error is propagating for that request,
\* whether the error was classified or not.
C17_HardBoundary ==
    \A k \in DOMAIN requests :
        Ran(requests[k], "failureHandler")
            => /\ requests[k].fhNext # "error"
               /\ requests[k].err = NoError
               /\ requests[k].raised # NoError

C17_Witness ==
    \E k \in DOMAIN requests :
        /\ Ran(requests[k], "failureHandler")
        /\ requests[k].raised.classified
        /\ requests[k].raised.statusCode = 400
        /\ requests[k].fhNext = "void"
        /\ requests[k].err = NoError

StartAttempts == Cardinality({i \in DOMAIN attempts : attempts[i].origin = "start"})

\* C18: after k calls of start there are k connect attempts made by start
\* and k listeners registered under the supervisor's event name, whatever
\* became of the attempts; each call adds one pending attempt and one
\* listener in the same step.
C18_OneAttemptOneListenerPerStart ==
    /\ [](StartAttempts = starts /\ listeners[ReconnectEvent] = starts)
    /\ [][starts' # starts
            => /\ starts' = starts + 1
               /\ Len(attempts') = Len(attempts) + 1
               /\ attempts'[Len(attempts')] = [origin |-> "start", status |-> "pending"]
               /\ listeners'[ReconnectEvent] = listeners[ReconnectEvent] + 1]_vars

C18_Witness ==
    /\ starts = 2
    /\ listeners[ReconnectEvent] = 2
    /\ attempts[1].status = "rejected"
    /\ attempts[2].status = "pending"
====
